---- MODULE Spec2Model ----
(***************************************************************************)
(* Cursor / token protocol of the three Fivetran cloud-function connectors *)
(* (Fitbit, Google Fit, MyFitnessPal) of exercise_dashboard.               *)
(*                                                                         *)
(* A handler is a function of the request (persisted state, secrets), the  *)
(* wall-clock date and the answers of the remote services.  Each handler   *)
(* is an operator that returns what the invocation did: the response it    *)
(* returned or the error it raised, the data requests it sent, the refresh *)
(* exchanges it posted and the state keys it seeded.  The Invoke actions   *)
(* run one handler and persist the returned state, as the caller does.     *)
(***************************************************************************)
EXTENDS Integers, Sequences, FiniteSets, TLC

VARIABLES conn, secrets, state, today, issued, last, prev, fetched, exchanged,
          inflight

vars == <<conn, secrets, state, today, issued, last, prev, fetched, exchanged,
          inflight>>

\* ------------------------------------------------------------------ bounds
MaxDay == 3        \* the last calendar day the clock reaches
MaxIssued == 2     \* token pairs the identity provider issues over a run

StartDay == 1      \* the clock's date in the initial state

\* ------------------------------------------------------------- data model
Connectors == {"fitbit", "googlefit", "myfitnesspal"}

\* A cursor string is a date written in some format; "alt" stands for any
\* spelling dateutil accepts that is not the ISO one ("2024-01-05T00:00",
\* "Jan 5 2024").
Formats == {"iso", "alt"}

CursorStr(d, f) == [date |-> d, fmt |-> f]

\* parser.parse(cursor).date()
parse(cursor) == cursor.date

\* date.isoformat()
isoformat(d) == [date |-> d, fmt |-> "iso"]

\* variant of NextDay that steps over a day
NextDayGap(d) == d + 2

\* cursor_date + dt.timedelta(days=1)
NextDay(d) == d + 1

\* variant of PrevDay that takes the following day
PrevDayForward(d) == d + 1

\* variant of PrevDay that goes back two days
PrevDayTwo(d) == d - 2

\* cursor_date - dt.timedelta(days=1)
PrevDay(d) == d - 1

\* The empty dict: the state of a first run, and "no response".
EmptyDict == [k \in {} |-> 0]

\* variant of SeedKey that takes the key from the secrets on every invocation
SeedKeyAlways(st, sec, k) ==
    [x \in (DOMAIN st) \cup {k} |-> IF x = k THEN sec[k] ELSE st[x]]

\* if key not in state: state[key] = secrets[key]
SeedKey(st, sec, k) ==
    IF k \in DOMAIN st
    THEN st
    ELSE [x \in (DOMAIN st) \cup {k} |-> IF x = k THEN sec[k] ELSE st[x]]

\* the keys a seeding step took from the secrets
SeededKeys(st, keys) == keys \ DOMAIN st

\* What one invocation did.
Returned(resp, requests, posts, seeded, input) ==
    [outcome |-> "response", error |-> "none", resp |-> resp,
     requests |-> requests, posts |-> posts, seeded |-> seeded,
     input |-> input]

\* variant of Raised that swallows the error and answers with the input state
RaisedSwallowed(error, requests, posts, seeded, input) ==
    [outcome |-> "response", error |-> error,
     resp |-> [state |-> input.state, hasMore |-> FALSE],
     requests |-> requests, posts |-> posts, seeded |-> seeded,
     input |-> input]

\* `raise`: the invocation ends without a response
Raised(error, requests, posts, seeded, input) ==
    [outcome |-> "raised", error |-> error, resp |-> EmptyDict,
     requests |-> requests, posts |-> posts, seeded |-> seeded,
     input |-> input]

\* variant of CursorInFuture that lets tomorrow through
CursorInFutureLax(cursor_date, now) == cursor_date > now + 1

\* the guard `cursor_date > dt.date.today()`
CursorInFuture(cursor_date, now) == cursor_date > now

\* variant of CursorIsToday without the caught-up check
CursorIsTodayNever(cursor_date, now) == FALSE

\* the check `cursor_date == dt.date.today()`
CursorIsToday(cursor_date, now) == cursor_date = now

\* ------------------------------------------------------------------ Fitbit
SummaryFields == {"steps", "caloriesBMR", "caloriesOut", "activityCalories",
                  "marginalCalories", "sedentaryMinutes",
                  "lightlyActiveMinutes", "fairlyActiveMinutes",
                  "veryActiveMinutes"}

FitbitKeys == {"cursor", "access_token", "refresh_token"}

FitbitSeed(st, sec) ==
    SeedKey(SeedKey(SeedKey(st, sec, "cursor"), sec, "access_token"),
            sec, "refresh_token")

\* the exchange posts the refresh token of the state
FitbitRefreshPost(st, reply) ==
    [refresh_token |-> st["refresh_token"], status |-> reply.status]

\* variant of refresh_fitbit_token that posts a second time when rejected
refresh_fitbit_token_retry(st, reply) ==
    IF reply.status # 200
    THEN [raised |-> TRUE,
          posts |-> <<FitbitRefreshPost(st, reply), FitbitRefreshPost(st, reply)>>,
          new_token |-> EmptyDict]
    ELSE [raised |-> FALSE, posts |-> <<FitbitRefreshPost(st, reply)>>,
          new_token |-> reply.body]

\* One post; a status other than 200 raises, a 200 returns the body.
refresh_fitbit_token(st, reply) ==
    IF reply.status # 200
    THEN [raised |-> TRUE, posts |-> <<FitbitRefreshPost(st, reply)>>,
          new_token |-> EmptyDict]
    ELSE [raised |-> FALSE, posts |-> <<FitbitRefreshPost(st, reply)>>,
          new_token |-> reply.body]

FitbitGet(api, cursor_date, st, reply) ==
    [api |-> api, date |-> cursor_date, auth |-> st["access_token"],
     reply |-> reply]

\* variant of FitbitTokenExpired that looks at the activity answer only
FitbitTokenExpiredActivityOnly(activity, weight) == activity.status = 401

\* variant of FitbitTokenExpired in which a rate limit is looked at first
FitbitTokenExpiredUnlessLimited(activity, weight) ==
    /\ activity.status = 401 \/ weight.status = 401
    /\ activity.status # 429 /\ weight.status # 429

\* `activity.status_code == 401 or weight.status_code == 401`
FitbitTokenExpired(activity, weight) ==
    activity.status = 401 \/ weight.status = 401

\* `activity.status_code == 429 or weight.status_code == 429`
FitbitRateLimited(activity, weight) ==
    activity.status = 429 \/ weight.status = 429

\* the body has every key the parse step reads
FitbitActivityShaped(body) ==
    /\ "summary" \in DOMAIN body
    /\ SummaryFields \subseteq DOMAIN body["summary"]

FitbitWeightShaped(body) ==
    /\ "weight" \in DOMAIN body
    /\ Len(body["weight"]) > 0 => "weight" \in DOMAIN body["weight"][1]

FitbitActivityInsert(cursor_date, body) ==
    [f \in SummaryFields \cup {"date"} |->
        IF f = "date" THEN isoformat(cursor_date) ELSE body["summary"][f]]

\* variant of FitbitWeightInsert that takes the last entry of the list
FitbitWeightInsertLast(cursor_date, body) ==
    [date |-> isoformat(cursor_date),
     weight |-> IF Len(body["weight"]) > 0
                THEN <<body["weight"][Len(body["weight"])]["weight"]>>
                ELSE <<>>]

\* the weight is <<w>>, or <<>> for None
FitbitWeightInsert(cursor_date, body) ==
    [date |-> isoformat(cursor_date),
     weight |-> IF Len(body["weight"]) > 0
                THEN <<body["weight"][1]["weight"]>>
                ELSE <<>>]

\* variant of FitbitRefreshedState that advances the cursor
FitbitRefreshedStateSkips(cursor_date, new_token) ==
    [cursor |-> isoformat(cursor_date + 1),
     access_token |-> new_token["access_token"],
     refresh_token |-> new_token["refresh_token"]]

\* variant of FitbitRefreshedState that leaves the new refresh token out
FitbitRefreshedStateNoRefreshToken(cursor_date, new_token) ==
    [cursor |-> isoformat(cursor_date),
     access_token |-> new_token["access_token"]]

\* the state of the token-expiry response
FitbitRefreshedState(cursor_date, new_token) ==
    [cursor |-> isoformat(cursor_date),
     access_token |-> new_token["access_token"],
     refresh_token |-> new_token["refresh_token"]]

FitbitHandler(st0, sec, now, env) ==
    LET st == FitbitSeed(st0, sec)
        seeded == SeededKeys(st0, FitbitKeys)
        cursor == st["cursor"]
        cursor_date == parse(cursor)
        input == [state |-> st0, today |-> now, cursor_date |-> cursor_date]
        gets == <<FitbitGet("activity", cursor_date, st, env.activity),
                  FitbitGet("weight", cursor_date, st, env.weight)>>
        rf == refresh_fitbit_token(st, env.refresh)
    IN
    IF CursorInFuture(cursor_date, now)
    THEN Raised("ValueError: cursor later than today", <<>>, <<>>, seeded, input)
    ELSE IF CursorIsToday(cursor_date, now)
    THEN Returned([state |-> st, hasMore |-> FALSE,
                   returnCause |-> "Cursor date not complete yet"],
                  <<>>, <<>>, seeded, input)
    ELSE IF FitbitTokenExpired(env.activity, env.weight)
    THEN IF rf.raised
         THEN Raised("ValueError: token refresh rejected", gets, rf.posts, seeded, input)
         ELSE Returned([state |-> FitbitRefreshedState(cursor_date, rf.new_token),
                        hasMore |-> TRUE,
                        returnCause |-> "OAuth token required refresh"],
                       gets, rf.posts, seeded, input)
    ELSE IF FitbitRateLimited(env.activity, env.weight)
    THEN Returned([state |-> st, hasMore |-> FALSE,
                   returnCause |-> "Hit rate limit"],
                  gets, <<>>, seeded, input)
    ELSE IF ~ FitbitActivityShaped(env.activity.body)
            \/ ~ FitbitWeightShaped(env.weight.body)
    THEN Raised("KeyError: malformed response", gets, <<>>, seeded, input)
    ELSE Returned(
           [state |-> [cursor |-> isoformat(NextDay(cursor_date)),
                       access_token |-> st["access_token"],
                       refresh_token |-> st["refresh_token"],
                       returnCause |-> "Successfully retrieved data"],
            insert |-> [activity |-> <<FitbitActivityInsert(cursor_date, env.activity.body)>>,
                        weight |-> <<FitbitWeightInsert(cursor_date, env.weight.body)>>],
            schema |-> [activity |-> [primary_key |-> <<"date">>],
                        weight |-> [primary_key |-> <<"date">>]],
            hasMore |-> TRUE],
           gets, <<>>, seeded, input)

\* -------------------------------------------------------------- Google Fit
GoogleFitKeys == {"cursor", "access_token"}

SessionFields == {"id", "name", "description", "startTimeMillis",
                  "endTimeMillis", "modifiedTimeMillis", "application"}

GoogleFitSeed(st, sec) ==
    SeedKey(SeedKey(st, sec, "cursor"), sec, "access_token")

\* the exchange posts the refresh token of the secrets
GoogleFitRefreshPost(sec, reply) ==
    [refresh_token |-> sec["refresh_token"], status |-> reply.status]

\* One post; a status other than 200 raises, a 200 returns the body.
refresh_oauth_token(sec, reply) ==
    IF reply.status # 200
    THEN [raised |-> TRUE, posts |-> <<GoogleFitRefreshPost(sec, reply)>>,
          new_token |-> EmptyDict]
    ELSE [raised |-> FALSE, posts |-> <<GoogleFitRefreshPost(sec, reply)>>,
          new_token |-> reply.body]

\* the window [cursor_date 00:00, cursor_date + 1 day 00:00) America/Chicago
GoogleFitGet(cursor_date, st, reply) ==
    [api |-> "sessions",
     startTime |-> [date |-> cursor_date, tz |-> "America/Chicago"],
     endTime |-> [date |-> cursor_date + 1, tz |-> "America/Chicago"],
     auth |-> st["access_token"],
     reply |-> reply]

GoogleFitTokenExpired(sessions) == sessions.status = 401

GoogleFitShaped(body) ==
    /\ "session" \in DOMAIN body
    /\ \A i \in 1..Len(body["session"]) :
          /\ SessionFields \subseteq DOMAIN body["session"][i]
          /\ "packageName" \in DOMAIN body["session"][i]["application"]

GoogleFitSessionInsert(cursor_date, sess) ==
    [date |-> isoformat(cursor_date),
     id |-> sess["id"],
     name |-> sess["name"],
     description |-> sess["description"],
     start_time_millis |-> sess["startTimeMillis"],
     end_time_millis |-> sess["endTimeMillis"],
     modified_time_millis |-> sess["modifiedTimeMillis"],
     source |-> sess["application"]["packageName"]]

GoogleFitSessionsInsert(cursor_date, body) ==
    [i \in 1..Len(body["session"]) |->
        GoogleFitSessionInsert(cursor_date, body["session"][i])]

\* `sessions_insert if sessions_insert else None`
GoogleFitInsertValue(sessions_insert) ==
    IF Len(sessions_insert) > 0
    THEN [none |-> FALSE, records |-> sessions_insert]
    ELSE [none |-> TRUE, records |-> <<>>]

\* variant of GoogleFitRefreshedState that leaves the new token out
GoogleFitRefreshedStateNoToken(cursor_date, new_token) ==
    [cursor |-> isoformat(cursor_date)]

\* the state of the token-expiry response
GoogleFitRefreshedState(cursor_date, new_token) ==
    [cursor |-> isoformat(cursor_date),
     access_token |-> new_token["access_token"]]

GoogleFitHandler(st0, sec, now, env) ==
    LET st == GoogleFitSeed(st0, sec)
        seeded == SeededKeys(st0, GoogleFitKeys)
        cursor == st["cursor"]
        cursor_date == parse(cursor)
        input == [state |-> st0, today |-> now, cursor_date |-> cursor_date]
        gets == <<GoogleFitGet(cursor_date, st, env.sessions)>>
        rf == refresh_oauth_token(sec, env.refresh)
    IN
    IF CursorInFuture(cursor_date, now)
    THEN Raised("ValueError: cursor later than today", <<>>, <<>>, seeded, input)
    ELSE IF CursorIsToday(cursor_date, now)
    THEN Returned([state |-> [cursor |-> cursor], hasMore |-> FALSE],
                  <<>>, <<>>, seeded, input)
    ELSE IF GoogleFitTokenExpired(env.sessions)
    THEN IF rf.raised
         THEN Raised("ValueError: token refresh rejected", gets, rf.posts, seeded, input)
         ELSE Returned([state |-> GoogleFitRefreshedState(cursor_date, rf.new_token),
                        hasMore |-> TRUE],
                       gets, rf.posts, seeded, input)
    ELSE IF ~ GoogleFitShaped(env.sessions.body)
    THEN Raised("KeyError: malformed response", gets, <<>>, seeded, input)
    ELSE Returned(
           [state |-> [cursor |-> isoformat(NextDay(cursor_date)),
                       access_token |-> st["access_token"]],
            insert |-> [sessions |->
                          GoogleFitInsertValue(
                            GoogleFitSessionsInsert(cursor_date, env.sessions.body))],
            schema |-> [sessions |-> [primary_key |-> <<"date", "id">>]],
            hasMore |-> TRUE],
           gets, <<>>, seeded, input)

\* ------------------------------------------------------------ MyFitnessPal
MyFitnessPalKeys == {"cursor"}

MyFitnessPalSeed(st, sec) == SeedKey(st, sec, "cursor")

\* client.get_date(year, month, day) of one day, with how it ended
MyFitnessPalGet(date, reply) ==
    [api |-> "diary", date |-> date, reply |-> reply]

\* {'date': date.isoformat(), 'name': meal.name, **meal.totals}
MyFitnessPalRecord(date, meal) ==
    [f \in {"date", "name"} \cup DOMAIN meal.totals |->
        IF f = "date" THEN isoformat(date)
        ELSE IF f = "name" THEN meal.name
        ELSE meal.totals[f]]

MyFitnessPalDayRecords(date, meals) ==
    [i \in 1..Len(meals) |-> MyFitnessPalRecord(date, meals[i])]

MyFitnessPalHandler(st0, sec, now, env) ==
    LET st == MyFitnessPalSeed(st0, sec)
        seeded == SeededKeys(st0, MyFitnessPalKeys)
        cursor == st["cursor"]
        cursor_date == parse(cursor)
        prev_date == PrevDay(cursor_date)
        input == [state |-> st0, today |-> now, cursor_date |-> cursor_date]
        getPrev == MyFitnessPalGet(prev_date, env.diaryPrev)
        getCur == MyFitnessPalGet(cursor_date, env.diaryCur)
    IN
    IF env.login # "ok"
    THEN Raised("client login failed", <<>>, <<>>, {}, input)
    ELSE IF CursorInFuture(cursor_date, now)
    THEN Raised("ValueError: cursor later than today", <<>>, <<>>, seeded, input)
    ELSE IF CursorIsToday(cursor_date, now)
    THEN Returned([state |-> [cursor |-> cursor], hasMore |-> FALSE],
                  <<>>, <<>>, seeded, input)
    ELSE IF env.diaryPrev.raised
    THEN Raised("diary request failed", <<getPrev>>, <<>>, seeded, input)
    ELSE IF env.diaryCur.raised
    THEN Raised("diary request failed", <<getPrev, getCur>>, <<>>, seeded, input)
    ELSE Returned(
           [state |-> [cursor |-> isoformat(NextDay(cursor_date))],
            insert |-> [totals |->
                          MyFitnessPalDayRecords(prev_date, env.diaryPrev.meals)
                          \o MyFitnessPalDayRecords(cursor_date, env.diaryCur.meals)],
            delete |-> EmptyDict,
            schema |-> [totals |-> [primary_key |-> <<"date", "name">>]],
            hasMore |-> TRUE],
           <<getPrev, getCur>>, <<>>, seeded, input)

\* ------------------------------------------------- the remote services
Statuses == {200, 401, 429, 500}

ErrorBody == [errors |-> "error"]

Summary == [f \in SummaryFields |-> 100]

\* a complete summary, a summary that lacks fields, and the error answers
ActivityReplies ==
    {[status |-> 200, body |-> [summary |-> Summary]],
     [status |-> 200, body |-> [summary |-> [steps |-> 100]]]}
    \cup {[status |-> s, body |-> ErrorBody] : s \in Statuses \ {200}}

\* no entry, one entry, two entries, an entry without a weight, no list
WeightLists ==
    {<<>>, <<[weight |-> 70]>>, <<[weight |-> 71], [weight |-> 70]>>,
     <<[bmi |-> 22]>>}

WeightReplies ==
    {[status |-> 200, body |-> [weight |-> w]] : w \in WeightLists}
    \cup {[status |-> s, body |-> ErrorBody] : s \in Statuses}

Session(i) ==
    [id |-> i, name |-> "run", description |-> "", startTimeMillis |-> 10 * i,
     endTimeMillis |-> 10 * i + 5, modifiedTimeMillis |-> 10 * i + 6,
     application |-> [packageName |-> "app"]]

\* no session, one, two, a session without its fields, no list
SessionLists ==
    {<<>>, <<Session(1)>>, <<Session(1), Session(2)>>, <<[id |-> 1]>>}

SessionsReplies ==
    {[status |-> 200, body |-> [session |-> q]] : q \in SessionLists}
    \cup {[status |-> s, body |-> ErrorBody] : s \in Statuses}

Meal(name) == [name |-> name, totals |-> [calories |-> 300]]

MealLists ==
    {<<>>, <<Meal("breakfast")>>, <<Meal("breakfast"), Meal("dinner")>>}

DiaryReplies ==
    {[raised |-> FALSE, meals |-> q] : q \in MealLists}
    \cup {[raised |-> TRUE, meals |-> <<>>]}

\* The identity provider issues token pair number issued + 1, or rejects.
\* It answers only when an exchange is posted.
NoReply == [status |-> 0, body |-> ErrorBody]

RefreshReplies(c, posted) ==
    IF ~ posted THEN {NoReply}
    ELSE
    {[status |-> 400, body |-> ErrorBody]}
    \cup (IF issued < MaxIssued
          THEN {[status |-> 200,
                 body |-> IF c = "fitbit"
                          THEN [access_token |-> issued + 1,
                                refresh_token |-> issued + 1]
                          ELSE [access_token |-> issued + 1]]}
          ELSE {})

\* -------------------------------------------------- state and operations
NoInvocation ==
    [outcome |-> "none", error |-> "none", resp |-> EmptyDict,
     requests |-> <<>>, posts |-> <<>>, seeded |-> {},
     input |-> [state |-> EmptyDict, today |-> 0, cursor_date |-> 0]]

\* the invocation took the token-expiry branch and returned
Refreshed(r) == r.outcome = "response" /\ r.posts # <<>>

\* the invocation took the success branch
Fetched(r) == "insert" \in DOMAIN r.resp

\* What the next invocation is compared with.  When the invocation took the
\* token-expiry branch, the provider's counter is the token it issued.
Digest(r) ==
    [outcome |-> r.outcome,
     refreshed |-> Refreshed(r),
     cursor_date |-> r.input.cursor_date,
     today |-> r.input.today,
     issued_token |-> IF Refreshed(r) THEN issued ELSE -1]

SecretsFrom(days) ==
    {[cursor |-> CursorStr(d, f), access_token |-> 0, refresh_token |-> 0] :
        d \in days, f \in Formats}

\* the invocations that may run at once when the caller does not serialise
\* them
Procs == {1, 2}

\* no invocation of this process is under way
Idle == [busy |-> FALSE, state |-> EmptyDict, today |-> 0]

InitWith(days, states) ==
    /\ conn \in Connectors
    /\ secrets \in SecretsFrom(days)
    /\ state \in states
    /\ today = StartDay
    /\ issued = 0
    /\ last = NoInvocation
    /\ prev = Digest(NoInvocation)
    /\ fetched = <<>>
    /\ exchanged = {}
    /\ inflight = [p \in Procs |-> Idle]

\* A first run: the caller passes the empty state, the secrets hold a cursor
\* that is not after today.
Init == InitWith(0..StartDay, {EmptyDict})

\* The caller persists the state of a response; an error leaves it alone.
Persist(r) ==
    /\ state' = IF r.outcome = "response" THEN r.resp.state ELSE state
    /\ issued' = IF r.posts # <<>> /\ r.posts[1].status = 200
                 THEN issued + 1 ELSE issued
    /\ exchanged' = IF r.posts # <<>> /\ r.posts[1].status = 200
                    THEN exchanged \cup {r.posts[1].refresh_token}
                    ELSE exchanged
    /\ last' = r
    /\ prev' = Digest(last)
    /\ fetched' = IF Fetched(r) THEN Append(fetched, r.input.cursor_date)
                  ELSE fetched
    /\ UNCHANGED <<conn, secrets, today>>

InvokeFitbit ==
    /\ conn = "fitbit"
    /\ UNCHANGED inflight
    /\ \E a \in ActivityReplies, w \in WeightReplies :
       \E t \in RefreshReplies(conn, FitbitTokenExpired(a, w)) :
          Persist(FitbitHandler(state, secrets, today,
                                [activity |-> a, weight |-> w, refresh |-> t]))

InvokeGoogleFit ==
    /\ conn = "googlefit"
    /\ UNCHANGED inflight
    /\ \E s \in SessionsReplies :
       \E t \in RefreshReplies(conn, GoogleFitTokenExpired(s)) :
          Persist(GoogleFitHandler(state, secrets, today,
                                   [sessions |-> s, refresh |-> t]))

InvokeMyFitnessPal ==
    /\ conn = "myfitnesspal"
    /\ UNCHANGED inflight
    /\ \E l \in {"ok", "raise"}, p \in DiaryReplies, c \in DiaryReplies :
          Persist(MyFitnessPalHandler(state, secrets, today,
                                      [login |-> l, diaryPrev |-> p, diaryCur |-> c]))

\* midnight passes
Tick ==
    /\ today < MaxDay
    /\ today' = today + 1
    /\ UNCHANGED <<conn, secrets, state, issued, last, prev, fetched, exchanged,
                   inflight>>

Next == InvokeFitbit \/ InvokeGoogleFit \/ InvokeMyFitnessPal \/ Tick

Spec == Init /\ [][Next]_vars

\* A first run on secrets that somebody edited: the cursor may be any date,
\* also one after today.
InitAny == InitWith(0..(MaxDay + 1), {EmptyDict})

SpecAny == InitAny /\ [][Next]_vars

\* the handler of connector c
HandlerOf(c, st0, sec, now, env) ==
    CASE c = "fitbit" -> FitbitHandler(st0, sec, now, env)
      [] c = "googlefit" -> GoogleFitHandler(st0, sec, now, env)
      [] c = "myfitnesspal" -> MyFitnessPalHandler(st0, sec, now, env)

\* answers with which every data request of an invocation succeeds
GoodEnv(c) ==
    CASE c = "fitbit" ->
           [activity |-> [status |-> 200, body |-> [summary |-> Summary]],
            weight |-> [status |-> 200, body |-> [weight |-> <<>>]],
            refresh |-> NoReply]
      [] c = "googlefit" ->
           [sessions |-> [status |-> 200, body |-> [session |-> <<>>]],
            refresh |-> NoReply]
      [] c = "myfitnesspal" ->
           [login |-> "ok",
            diaryPrev |-> [raised |-> FALSE, meals |-> <<>>],
            diaryCur |-> [raised |-> FALSE, meals |-> <<>>]]

\* an invocation whose requests, if it sends any, all succeed
InvokeGood ==
    /\ Persist(HandlerOf(conn, state, secrets, today, GoodEnv(conn)))
    /\ UNCHANGED inflight

\* The caller keeps invoking on one day (the clock stands still), and an
\* invocation whose requests all succeed eventually happens.
NextLive == InvokeFitbit \/ InvokeGoogleFit \/ InvokeMyFitnessPal

SpecLive == Init /\ [][NextLive]_vars /\ WF_vars(InvokeGood)

\* Two invocations of one connector on one persisted state, not serialised.
\* An invocation receives the persisted state and reads the clock when it
\* starts; its requests are answered and its returned state is persisted when
\* it finishes.  Another invocation may start and finish in between.

\* answers with which the first data request of an invocation fails
BadEnv(c) ==
    CASE c = "fitbit" ->
           [activity |-> [status |-> 500, body |-> ErrorBody],
            weight |-> [status |-> 200, body |-> [weight |-> <<>>]],
            refresh |-> NoReply]
      [] c = "googlefit" ->
           [sessions |-> [status |-> 500, body |-> ErrorBody],
            refresh |-> NoReply]
      [] c = "myfitnesspal" ->
           [login |-> "ok",
            diaryPrev |-> [raised |-> TRUE, meals |-> <<>>],
            diaryCur |-> [raised |-> FALSE, meals |-> <<>>]]

\* the answers the services give a racing invocation of connector c: every
\* request succeeds, or the first one fails
Envs(c) == {GoodEnv(c), BadEnv(c)}

\* variant of Snapshot in which the invocation reads the state and the clock
\* only when it finishes
SnapshotAtFinish(p) == [state |-> state, today |-> today]

\* the request the invocation of process p was started with
Snapshot(p) == [state |-> inflight[p].state, today |-> inflight[p].today]

Start(p) ==
    /\ ~ inflight[p].busy
    /\ inflight' = [inflight EXCEPT
                      ![p] = [busy |-> TRUE, state |-> state, today |-> today]]
    /\ UNCHANGED <<conn, secrets, state, today, issued, last, prev, fetched,
                   exchanged>>

Finish(p) ==
    /\ inflight[p].busy
    /\ \E env \in Envs(conn) :
          Persist(HandlerOf(conn, Snapshot(p).state, secrets,
                            Snapshot(p).today, env))
    /\ inflight' = [inflight EXCEPT ![p] = Idle]

StartSome == \E p \in Procs : Start(p)

FinishSome == \E p \in Procs : Finish(p)

NextRace == StartSome \/ FinishSome \/ Tick

SpecRace == Init /\ [][NextRace]_vars

\* ------------------------------------------------------------ properties
Invoked == last.outcome # "none"

\* the state the handler works on once the missing keys are seeded
Effective(st0) ==
    CASE conn = "fitbit" -> FitbitSeed(st0, secrets)
      [] conn = "googlefit" -> GoogleFitSeed(st0, secrets)
      [] conn = "myfitnesspal" -> MyFitnessPalSeed(st0, secrets)

\* the date a data request asks for
ReqDate(r) == IF "startTime" \in DOMAIN r THEN r.startTime.date ELSE r.date

Answered(r, status) ==
    /\ conn \in {"fitbit", "googlefit"}
    /\ \E i \in 1..Len(r.requests) : r.requests[i].reply.status = status

\* every data request of the invocation was sent and answered 200 (for
\* MyFitnessPal: the login and both diary reads returned) with a body of the
\* expected shape
AllRequestsSucceeded(r) ==
    CASE conn = "fitbit" ->
           /\ Len(r.requests) = 2
           /\ \A i \in 1..2 : r.requests[i].reply.status = 200
           /\ FitbitActivityShaped(r.requests[1].reply.body)
           /\ FitbitWeightShaped(r.requests[2].reply.body)
      [] conn = "googlefit" ->
           /\ Len(r.requests) = 1
           /\ r.requests[1].reply.status = 200
           /\ GoogleFitShaped(r.requests[1].reply.body)
      [] conn = "myfitnesspal" ->
           /\ Len(r.requests) = 2
           /\ \A i \in 1..2 : ~ r.requests[i].reply.raised

\* C1: for every connector and every cursor date d before today, an invocation
\* whose data requests all succeed with well-formed bodies returns a state
\* whose cursor is d + 1 day, with hasMore = true.
C1_SuccessAdvancesOneDay ==
    (/\ Invoked
     /\ last.input.cursor_date < last.input.today
     /\ AllRequestsSucceeded(last))
    => /\ last.outcome = "response"
       /\ last.resp.state["cursor"]
            = [date |-> last.input.cursor_date + 1, fmt |-> "iso"]
       /\ last.resp.hasMore = TRUE

C1_Witness ==
    /\ Invoked
    /\ last.input.cursor_date < last.input.today
    /\ AllRequestsSucceeded(last)
    /\ last.outcome = "response"
    /\ last.input.state # EmptyDict

\* C2: for every connector, an invocation whose cursor date is today returns
\* hasMore = false and a state that keeps every key of the input persisted
\* state with its input value (and holds nothing but that state and what the
\* first-run seeding added), without any data request or refresh exchange.
C2_CaughtUpReturnsInputState ==
    (/\ Invoked
     /\ last.input.cursor_date = last.input.today
     /\ last.error # "client login failed")
    => /\ last.outcome = "response"
       /\ last.resp.hasMore = FALSE
       /\ last.requests = <<>>
       /\ last.posts = <<>>
       /\ \A k \in DOMAIN last.input.state :
             /\ k \in DOMAIN last.resp.state
             /\ last.resp.state[k] = last.input.state[k]
       /\ \A k \in DOMAIN last.resp.state :
             /\ k \in DOMAIN Effective(last.input.state)
             /\ last.resp.state[k] = Effective(last.input.state)[k]

\* C3: for every connector, an invocation whose cursor date is after today
\* raises (the guard's ValueError, unless the MyFitnessPal login raised
\* first), returns no response, sends no data request, posts no refresh
\* exchange, and the persisted state stays as it was.
C3_FutureCursorRaises ==
    (Invoked /\ last.input.cursor_date > last.input.today)
    => /\ last.outcome = "raised"
       /\ last.error \in {"ValueError: cursor later than today",
                          "client login failed"}
       /\ conn # "myfitnesspal"
            => last.error = "ValueError: cursor later than today"
       /\ last.resp = EmptyDict
       /\ last.requests = <<>>
       /\ last.posts = <<>>
       /\ state = last.input.state

C3_Witness ==
    /\ Invoked
    /\ last.input.cursor_date > last.input.today
    /\ last.error = "ValueError: cursor later than today"

\* C4: Fitbit and Google Fit: when a data request of an invocation with
\* cursor before today answers 401 and the provider does not reject the
\* exchange, the response keeps the cursor date, carries the newly issued
\* tokens (different from the input ones), has hasMore = true and no records.
C4_TokenExpiryKeepsCursor ==
    (/\ Invoked
     /\ conn \in {"fitbit", "googlefit"}
     /\ last.input.cursor_date < last.input.today
     /\ Answered(last, 401)
     /\ ~ (last.posts # <<>> /\ last.posts[1].status # 200))
    => /\ last.outcome = "response"
       /\ Len(last.posts) = 1
       /\ parse(last.resp.state["cursor"]) = last.input.cursor_date
       /\ last.resp.state["access_token"] = issued
       /\ last.resp.state["access_token"]
            # Effective(last.input.state)["access_token"]
       /\ conn = "fitbit" =>
            /\ last.resp.state["refresh_token"] = issued
            /\ last.resp.state["refresh_token"]
                 # Effective(last.input.state)["refresh_token"]
       /\ last.resp.hasMore = TRUE
       /\ ~ Fetched(last)
       /\ state = last.resp.state

C4_Witness ==
    /\ Invoked
    /\ conn = "fitbit"
    /\ last.requests # <<>>
    /\ last.requests[1].reply.status = 200
    /\ last.requests[2].reply.status = 401
    /\ Refreshed(last)
    /\ last.input.state # EmptyDict

\* C5: Fitbit and Google Fit: when a data request answers 429 (and none
\* answers 401), the invocation does not raise; it returns the input state
\* (with the seeded keys on a first run), hasMore = false and no records.
C5_RateLimitReturnsInputState ==
    (/\ Invoked
     /\ conn \in {"fitbit", "googlefit"}
     /\ Answered(last, 429)
     /\ ~ Answered(last, 401))
    => /\ last.outcome = "response"
       /\ last.resp.state = Effective(last.input.state)
       /\ last.resp.hasMore = FALSE
       /\ ~ Fetched(last)

\* C6: under single-flight invocation with the returned state persisted, the
\* cursor dates of the success responses are the consecutive days that start
\* at the initial cursor: no day is skipped and none is fetched twice; the
\* persisted cursor is the day after the last one fetched.
C6_NoGapNoDuplicate ==
    /\ \A i \in 1..Len(fetched) : fetched[i] = parse(secrets["cursor"]) + (i - 1)
    /\ "cursor" \in DOMAIN state
         => parse(state["cursor"]) = parse(secrets["cursor"]) + Len(fetched)

C6_Witness ==
    /\ Len(fetched) >= 2
    /\ issued >= 1
    /\ Answered(last, 429)

\* C7: from a cursor that is not after today, with the clock never moving
\* back and the state only replaced by returned states, the persisted cursor
\* is never after today, and the cursor-in-the-future guard never fires.
C7_CursorNeverInFuture ==
    /\ "cursor" \in DOMAIN state => parse(state["cursor"]) <= today
    /\ parse(secrets["cursor"]) <= today
    /\ last.error # "ValueError: cursor later than today"

C7_Witness ==
    /\ Fetched(last)
    /\ parse(state["cursor"]) = today
    /\ today = last.input.today

\* C8: once a response has been persisted, no later invocation takes cursor,
\* access_token or refresh_token from the secrets.
C8_SeedsOnlyOnce ==
    (Invoked /\ prev.outcome = "response") => last.seeded = {}

\* C9: after an invocation that took the token-expiry branch for date d, the
\* next invocation on the persisted state, on the same day, sends its data
\* request(s) for d, authorised by the access token that refresh issued.
C9_RetriesSameDayWithFreshToken ==
    (/\ Invoked
     /\ prev.refreshed
     /\ last.input.today = prev.today)
    => /\ last.requests # <<>>
       /\ \A i \in 1..Len(last.requests) :
             /\ ReqDate(last.requests[i]) = prev.cursor_date
             /\ last.requests[i].auth = prev.issued_token

C9_Witness ==
    /\ Invoked
    /\ prev.refreshed
    /\ last.input.today = prev.today
    /\ conn = "googlefit"
    /\ Fetched(last)

\* C10: when a data request answers 401 and the provider rejects the refresh
\* exchange, the invocation raises after that one exchange and returns no
\* response; the persisted state keeps its cursor and tokens.
C10_RejectedRefreshIsFatal ==
    (/\ Invoked
     /\ Answered(last, 401)
     /\ last.posts # <<>>
     /\ last.posts[1].status # 200)
    => /\ last.outcome = "raised"
       /\ last.error = "ValueError: token refresh rejected"
       /\ last.resp = EmptyDict
       /\ Len(last.posts) = 1
       /\ state = last.input.state

C10_Witness ==
    /\ Invoked
    /\ Answered(last, 401)
    /\ last.posts # <<>>
    /\ last.posts[1].status # 200
    /\ last.outcome = "raised"
    /\ "access_token" \in DOMAIN state
    /\ state["access_token"] > 0

\* C11: Fitbit: every exchange sends the refresh token of the state the
\* invocation was given, a successful exchange puts the newly issued refresh
\* token into the returned (and persisted) state, and no exchange sends a
\* refresh token that an earlier exchange already consumed.
C11_Step ==
    (/\ conn = "fitbit"
     /\ last'.posts # <<>>
     /\ <<last, exchanged>>' # <<last, exchanged>>)
    => /\ \A i \in 1..Len(last'.posts) :
             /\ last'.posts[i].refresh_token = Effective(state)["refresh_token"]
             /\ last'.posts[i].refresh_token \notin exchanged
       /\ last'.posts[1].status = 200
            => /\ last'.outcome = "response"
               /\ "refresh_token" \in DOMAIN last'.resp.state
               /\ last'.resp.state["refresh_token"] = issued'
               /\ last'.resp.state["refresh_token"] \notin exchanged'
               /\ state' = last'.resp.state

C11_RefreshTokenNeverReused == [][C11_Step]_vars

C11_Witness ==
    /\ conn = "fitbit"
    /\ Refreshed(last)
    /\ Cardinality(exchanged) = 2
    /\ state["refresh_token"] = 2

\* C12: Fitbit and Google Fit: when no data request answers 401 or 429 but a
\* body lacks the expected shape, the invocation raises: no response, no
\* records, and the persisted state (cursor included) stays as it was.
SomeBodyMalformed(r) ==
    CASE conn = "fitbit" ->
           /\ Len(r.requests) = 2
           /\ \/ ~ FitbitActivityShaped(r.requests[1].reply.body)
              \/ ~ FitbitWeightShaped(r.requests[2].reply.body)
      [] conn = "googlefit" ->
           /\ Len(r.requests) = 1
           /\ ~ GoogleFitShaped(r.requests[1].reply.body)
      [] conn = "myfitnesspal" -> FALSE

C12_MalformedBodyRaises ==
    (/\ Invoked
     /\ ~ Answered(last, 401)
     /\ ~ Answered(last, 429)
     /\ SomeBodyMalformed(last))
    => /\ last.outcome = "raised"
       /\ last.error = "KeyError: malformed response"
       /\ last.resp = EmptyDict
       /\ ~ Fetched(last)
       /\ state = last.input.state

C12_Witness ==
    /\ Invoked
    /\ conn = "fitbit"
    /\ SomeBodyMalformed(last)
    /\ last.requests[1].reply.status = 200
    /\ last.requests[2].reply.status = 200
    /\ FitbitActivityShaped(last.requests[1].reply.body)
    /\ last.outcome = "raised"
    /\ fetched # <<>>

\* C13: with today fixed and an initial cursor not after today, a caller that
\* keeps invoking eventually receives the caught-up response: hasMore = false
\* with the cursor equal to today, provided fetches eventually succeed.
CaughtUp ==
    /\ last.outcome = "response"
    /\ last.resp.hasMore = FALSE
    /\ last.requests = <<>>
    /\ parse(last.resp.state["cursor"]) = today
    /\ parse(state["cursor"]) = today

C13_EventuallyCaughtUp == <>CaughtUp

C13_Witness ==
    /\ CaughtUp
    /\ fetched # <<>>
    /\ issued >= 1

\* C15: Google Fit: on a successful fetch every returned session becomes
\* exactly one record of the sessions table, dated with the cursor date, the
\* cursor advances by one day, and with zero sessions the table carries no
\* records as an empty list or an absent table, never as a null.
C15_ZeroSessionsNoNull ==
    (conn = "googlefit" /\ Fetched(last))
    => LET body == last.requests[1].reply.body
           insert == last.resp.insert
       IN /\ parse(last.resp.state["cursor"]) = last.input.cursor_date + 1
          /\ "sessions" \in DOMAIN insert =>
                /\ ~ insert["sessions"].none
                /\ Len(insert["sessions"].records) = Len(body["session"])
                /\ \A i \in 1..Len(body["session"]) :
                      /\ insert["sessions"].records[i].date
                           = [date |-> last.input.cursor_date, fmt |-> "iso"]
                      /\ insert["sessions"].records[i].id = body["session"][i].id
          /\ "sessions" \notin DOMAIN insert => Len(body["session"]) = 0

\* C17: MyFitnessPal: a successful invocation with cursor date d reads the
\* diary of d - 1 and then of d, emits one record per logged meal of each of
\* the two days with that day's date and the meal's name, and advances the
\* cursor by one day; so the invocation after a success reads the day the
\* earlier one read as its cursor date again, and emits its meals under the
\* same (date, name) key.
C17_MealsOfTwoDays ==
    (conn = "myfitnesspal" /\ Fetched(last))
    => LET d == last.input.cursor_date
           mealsPrev == last.requests[1].reply.meals
           mealsCur == last.requests[2].reply.meals
           totals == last.resp.insert["totals"]
       IN /\ Len(last.requests) = 2
          /\ last.requests[1].date = d - 1
          /\ last.requests[2].date = d
          /\ Len(totals) = Len(mealsPrev) + Len(mealsCur)
          /\ \A i \in 1..Len(mealsPrev) :
                /\ totals[i].date = [date |-> d - 1, fmt |-> "iso"]
                /\ totals[i].name = mealsPrev[i].name
          /\ \A i \in 1..Len(mealsCur) :
                /\ totals[Len(mealsPrev) + i].date = [date |-> d, fmt |-> "iso"]
                /\ totals[Len(mealsPrev) + i].name = mealsCur[i].name
          /\ last.resp.schema["totals"].primary_key = <<"date", "name">>
          /\ parse(last.resp.state["cursor"]) = d + 1
          /\ (prev.outcome = "response" /\ prev.cursor_date < prev.today)
               => last.requests[1].date = prev.cursor_date

C17_Witness ==
    /\ conn = "myfitnesspal"
    /\ Fetched(last)
    /\ prev.outcome = "response"
    /\ prev.cursor_date < prev.today
    /\ Len(last.requests[1].reply.meals) = 2
    /\ Len(last.requests[2].reply.meals) = 1

\* C18: no connector sends a data request for today or a later date: every
\* date requested (MyFitnessPal's preceding date included) is before today,
\* and an invocation whose cursor is today or later sends no data request and
\* posts no refresh exchange.
C18_NoRequestForTodayOrLater ==
    /\ \A i \in 1..Len(last.requests) :
          ReqDate(last.requests[i]) < last.input.today
    /\ (Invoked /\ last.input.cursor_date >= last.input.today)
         => last.requests = <<>> /\ last.posts = <<>>

C18_Witness ==
    /\ conn = "myfitnesspal"
    /\ Len(last.requests) = 2
    /\ last.requests[2].date = last.input.today - 1
    /\ last.input.today = MaxDay

\* C19: a response carries an insert section exactly when its cursor is the
\* input cursor plus one day; a Fitbit insert holds exactly one activity
\* record and one weight record, both dated with the input cursor date; and
\* when either Fitbit request fails (status or shape) nothing is inserted.
C19_RecordsIffAdvance ==
    /\ last.outcome = "response"
         => (Fetched(last)
               <=> parse(last.resp.state["cursor"]) = last.input.cursor_date + 1)
    /\ (conn = "fitbit" /\ Fetched(last))
         => /\ DOMAIN last.resp.insert = {"activity", "weight"}
            /\ Len(last.resp.insert["activity"]) = 1
            /\ Len(last.resp.insert["weight"]) = 1
            /\ last.resp.insert["activity"][1].date
                 = [date |-> last.input.cursor_date, fmt |-> "iso"]
            /\ last.resp.insert["weight"][1].date
                 = [date |-> last.input.cursor_date, fmt |-> "iso"]
    /\ (conn = "fitbit" /\ Invoked /\ ~ AllRequestsSucceeded(last))
         => ~ Fetched(last)

C19_Witness ==
    /\ conn = "fitbit"
    /\ Invoked
    /\ Len(last.requests) = 2
    /\ last.requests[1].reply.status = 200
    /\ FitbitActivityShaped(last.requests[1].reply.body)
    /\ last.requests[2].reply.status = 500
    /\ ~ Fetched(last)
    /\ fetched # <<>>

\* C20: every response that does not advance the cursor carries a top-level
\* returnCause, and the caught-up, token-refreshed and rate-limited branches
\* carry three different reasons.
BranchOf(r) ==
    IF r.requests = <<>> THEN "caught up"
    ELSE IF r.posts # <<>> THEN "token refreshed"
    ELSE "rate limited"

C20_ReasonOnEveryRecoverableBranch ==
    (last.outcome = "response" /\ ~ Fetched(last))
    => /\ "returnCause" \in DOMAIN last.resp
       /\ last.resp.returnCause =
            (CASE BranchOf(last) = "caught up" -> "Cursor date not complete yet"
               [] BranchOf(last) = "token refreshed" -> "OAuth token required refresh"
               [] BranchOf(last) = "rate limited" -> "Hit rate limit")

\* C16: with two invocations of one connector interleaved on one persisted
\* state, every invocation works on the state and the clock it read when it
\* started and the state it returns is persisted whatever was persisted in
\* between; an invocation that lowers the persisted cursor is one whose state
\* was replaced while it ran, and one that fetches a day that was fetched
\* before is such an invocation or one that started from a lowered cursor.
\* Both happen: C16_Witness is a state in which a day was fetched twice and the
\* persisted cursor is not after a day already fetched.
FetchedTwice == \E i, j \in 1..Len(fetched) : i < j /\ fetched[i] = fetched[j]

\* the persisted cursor is not after every day fetched: an advance was lost
AdvanceLost(st) ==
    /\ "cursor" \in DOMAIN st
    /\ \E i \in 1..Len(fetched) : parse(st["cursor"]) <= fetched[i]

C16_Step ==
    \A p \in Procs :
       (inflight[p].busy /\ ~ inflight'[p].busy)
       => /\ last'.input.state = inflight[p].state
          /\ last'.input.today = inflight[p].today
          /\ last'.outcome = "response" => state' = last'.resp.state
          /\ (/\ last'.outcome = "response"
              /\ parse(Effective(state')["cursor"])
                   < parse(Effective(state)["cursor"]))
               => inflight[p].state # state
          /\ (/\ Fetched(last')
              /\ \E i \in 1..Len(fetched) : fetched[i] = last'.input.cursor_date)
               => (inflight[p].state # state \/ AdvanceLost(state))

C16_RaceDamageNeedsStaleState == [][C16_Step]_vars

C16_Witness ==
    /\ conn = "fitbit"
    /\ FetchedTwice
    /\ AdvanceLost(state)
    /\ \E i \in 1..Len(fetched) : parse(state["cursor"]) < fetched[i]

\* C21: Fitbit: a successful fetch emits one weight record whose weight is
\* None exactly when the weight reply lists no entry, and otherwise the weight
\* of the first entry listed; the cursor advances in both cases, and every
\* invocation whose two requests answer 200 with well-shaped bodies is such a
\* fetch.
C21_WeightNoneIffNoEntry ==
    /\ (conn = "fitbit" /\ Fetched(last))
         => LET entries == last.requests[2].reply.body["weight"]
                records == last.resp.insert["weight"]
            IN /\ Len(records) = 1
               /\ records[1].weight = <<>> <=> Len(entries) = 0
               /\ Len(entries) > 0
                    => records[1].weight = <<entries[1]["weight"]>>
               /\ parse(last.resp.state["cursor"]) = last.input.cursor_date + 1
    /\ (conn = "fitbit" /\ Invoked /\ AllRequestsSucceeded(last))
         => Fetched(last)

C21_Witness ==
    /\ conn = "fitbit"
    /\ Fetched(last)
    /\ Len(last.requests[2].reply.body["weight"]) = 0
    /\ last.resp.insert["weight"][1].weight = <<>>
    /\ Len(fetched) = 2

\* C22: Fitbit: when a data request answers 401 the refresh exchange is
\* posted, whatever the other request answers (429 included), and a response
\* is then the token-refresh one (the tokens just issued, hasMore, the refresh
\* reason) and never the rate-limit one; the rate-limit response is returned
\* only when a request answers 429 and none answers 401.
RateLimitBranch(r) ==
    /\ r.outcome = "response"
    /\ "returnCause" \in DOMAIN r.resp
    /\ r.resp.returnCause = "Hit rate limit"

C22_ExpiryBeforeRateLimit ==
    conn = "fitbit"
    => /\ Answered(last, 401)
            => /\ Len(last.posts) = 1
               /\ ~ RateLimitBranch(last)
               /\ last.outcome = "response"
                    => /\ last.resp.hasMore
                       /\ last.resp.returnCause = "OAuth token required refresh"
                       /\ last.resp.state["access_token"] = issued
                       /\ last.resp.state["refresh_token"] = issued
                       /\ last.posts[1].status = 200
       /\ RateLimitBranch(last)
            => /\ Answered(last, 429)
               /\ ~ Answered(last, 401)
               /\ last.posts = <<>>
               /\ ~ last.resp.hasMore

C22_Witness ==
    /\ conn = "fitbit"
    /\ Len(last.requests) = 2
    /\ last.requests[1].reply.status = 429
    /\ last.requests[2].reply.status = 401
    /\ last.outcome = "response"
    /\ last.resp.returnCause = "OAuth token required refresh"
    /\ Len(last.posts) = 1

\* C23: a successful fetch returns the credentials it was given: each of
\* access_token and (Fitbit) refresh_token in the returned state equals the
\* one in the input state, or the one in the secrets when the input state has
\* none; and an invocation posts a refresh exchange only when a data request
\* of it answered 401.
CredentialKeys ==
    CASE conn = "fitbit" -> {"access_token", "refresh_token"}
      [] conn = "googlefit" -> {"access_token"}
      [] conn = "myfitnesspal" -> {}

C23_SuccessKeepsCredentials ==
    /\ Fetched(last)
         => \A k \in CredentialKeys :
               /\ k \in DOMAIN last.resp.state
               /\ last.resp.state[k] =
                    IF k \in DOMAIN last.input.state
                    THEN last.input.state[k] ELSE secrets[k]
    /\ Fetched(last) => last.posts = <<>>
    /\ last.posts # <<>> => Answered(last, 401)

C23_Witness ==
    /\ conn = "fitbit"
    /\ Fetched(last)
    /\ "access_token" \in DOMAIN last.input.state
    /\ last.input.state["access_token"] = 1
    /\ last.input.state["refresh_token"] = 1
    /\ last.resp.state["access_token"] = 1
    /\ secrets["access_token"] = 0

\* C24: also with two invocations of one connector interleaved on one
\* persisted state, every date from the cursor of the secrets up to, not
\* including, the persisted cursor was the cursor date of a success response.
InitialCursorDate == parse(secrets["cursor"])

C24_RaceLeavesNoGap ==
    "cursor" \in DOMAIN state
    => \A d \in InitialCursorDate..(parse(state["cursor"]) - 1) :
          \E i \in 1..Len(fetched) : fetched[i] = d

C24_Witness ==
    /\ conn = "googlefit"
    /\ FetchedTwice
    /\ InitialCursorDate = 0
    /\ parse(state["cursor"]) = MaxDay
    /\ \E p \in Procs : inflight[p].busy /\ "cursor" \in DOMAIN inflight[p].state
                        /\ parse(inflight[p].state["cursor"]) < MaxDay - 1

====
